---------------------------- MODULE Spec2Model ----------------------------
(***************************************************************************)
(* A model of the two pipelines of fastnear-compact-indexer:               *)
(*                                                                         *)
(*   ft_red             reads the redis stream final_blocks from a cursor, *)
(*                      hands every block over a bounded channel to        *)
(*                      listen_blocks, which extracts (account, token)     *)
(*                      pairs and commits them with meta:latest_block in   *)
(*                      one redis pipeline;                                *)
(*   balances_backfill  reads (account, token) records from a file, hands  *)
(*                      them in batches over a bounded channel to          *)
(*                      process_balances, which fetches the balances and   *)
(*                      commits them with HSETNX in one redis pipeline.    *)
(*                                                                         *)
(* The redis server executes the commands of a pipeline one at a time, in  *)
(* the order they were written (redis::pipe() without .atomic() sends no   *)
(* MULTI/EXEC); a connection error can end an attempt after any prefix.    *)
(***************************************************************************)
EXTENDS Integers, Sequences, FiniteSets, TLC

(***************************************************************************)
(* Program constants.                                                      *)
(***************************************************************************)
SAFE_OFFSET == 100

CHANNEL_CAPACITY == 100

(***************************************************************************)
(* Bounds of the model.                                                    *)
(***************************************************************************)
\* Connection errors (log read, store commit) per behaviour.
MaxFaults == 2

\* Abrupt stops of the process, each followed by a new start.
MaxCrashes == 2

\* Entries of the stream after the resume floor, in the short scenarios.
MaxTail == 2

\* Records of the export file, in the short scenarios.
MaxRecords == 4

\* Items beyond the channel's capacity, in the long scenarios (which have
\* no connection error and no stop).
LongExtra == 2

\* Action rows and event rows of the block the extractors are applied to.
MaxActions == 2

MaxEvents == 1

\* The batch threshold of balances_backfill's producer.  The source sends a
\* batch at 1000 pairs; the model runs the same code with a small threshold.
BatchSize == 2

(***************************************************************************)
(* Option<T>: None is the empty sequence, Some(x) the sequence <<x>>.      *)
(***************************************************************************)
None == << >>

Some(x) == << x >>

IsSome(o) == Len(o) = 1

Unwrap(o) == o[1]

Range(s) == { s[i] : i \in DOMAIN s }

(***************************************************************************)
(* Decimal text of a u64 (Display / to_string) and its parse               *)
(* (str::parse::<u64>): a number is stored in redis as its digits.         *)
(***************************************************************************)
RECURSIVE to_string(_)
to_string(n) ==
    IF n < 10 THEN << n >> ELSE Append(to_string(n \div 10), n % 10)

RECURSIVE parse(_)
parse(s) ==
    IF Len(s) = 1 THEN s[1]
    ELSE 10 * parse(SubSeq(s, 1, Len(s) - 1)) + s[Len(s)]

(***************************************************************************)
(* Stream ids "<height>-<seq>".  An id is the pair of its two numbers, and *)
(* redis orders ids by the first, then by the second.                      *)
(***************************************************************************)
FormatIdNext(height) == << height + 1, 0 >>

\* format!("{}-0", last_block_height)
FormatId(height) == << height, 0 >>

\* id.split_once("-").unwrap().0.parse().unwrap()
IdHeight(id) == id[1]

IdLess(a, b) == a[1] < b[1] \/ (a[1] = b[1] /\ a[2] < b[2])

\* The cursor "0" of the first read: redis reads it as 0-0.
ZeroId == << 0, 0 >>

(***************************************************************************)
(* Account ids are sequences of their dot-separated labels, so that        *)
(* ends_with(".pool.near") is a test on the labels: the suffix starts with *)
(* a dot, hence at least one more label precedes it.                       *)
(***************************************************************************)
EndsWith(id, suffix) ==
    /\ Len(id) > Len(suffix)
    /\ SubSeq(id, Len(id) - Len(suffix) + 1, Len(id)) = suffix

IsPool(id) ==
    EndsWith(id, << "poolv1", "near" >>) \/ EndsWith(id, << "pool", "near" >>)

FtMethodsShort ==
    { "ft_transfer_call", "ft_mint", "ft_burn",
      "near_withdraw", "near_deposit", "deposit_and_stake" }

FtMethods ==
    { "ft_transfer_call", "ft_transfer", "ft_mint", "ft_burn",
      "near_withdraw", "near_deposit", "deposit_and_stake" }

NftMethods ==
    { "nft_transfer_call", "nft_transfer", "nft_approve", "nft_revoke",
      "nft_revoke_all", "nft_mint", "nft_burn" }

(***************************************************************************)
(* The extractors.  Each returns a HashSet of (account_id, token_id).      *)
(***************************************************************************)
extract_staking_pairs(actions) ==
    { << a.predecessor_id, a.account_id >> :
        a \in { x \in Range(actions) :
                  /\ x.status = "Success"
                  /\ x.action = "FunctionCall"
                  /\ IsPool(x.account_id) } }

FtActionRowsAnyStatus(actions) ==
    { x \in Range(actions) :
        /\ ~IsPool(x.account_id)
        /\ IsSome(x.method_name)
        /\ Unwrap(x.method_name) \in FtMethods }

FtActionRows(actions) ==
    { x \in Range(actions) :
        /\ x.status = "Success"
        /\ ~IsPool(x.account_id)
        /\ IsSome(x.method_name)
        /\ Unwrap(x.method_name) \in FtMethods }

extract_ft_pairs(actions, events) ==
    LET acts == FtActionRows(actions)
        evs  == { e \in Range(events) : e.status = "Success" /\ IsSome(e.event) }
        mb   == { e \in evs : Unwrap(e.event) \in { "ft_mint", "ft_burn" } }
        tr   == { e \in evs : Unwrap(e.event) = "ft_transfer" }
    IN  { << a.predecessor_id, a.account_id >> : a \in acts }
        \cup { << Unwrap(a.args_receiver_id), a.account_id >> :
                 a \in { x \in acts : IsSome(x.args_receiver_id) } }
        \cup { << Unwrap(e.data_owner_id), e.account_id >> :
                 e \in { x \in mb : IsSome(x.data_owner_id) } }
        \cup { << Unwrap(e.data_new_owner_id), e.account_id >> :
                 e \in { x \in tr : IsSome(x.data_new_owner_id) } }
        \cup { << Unwrap(e.data_old_owner_id), e.account_id >> :
                 e \in { x \in tr : IsSome(x.data_old_owner_id) } }

NftActionRows(actions) ==
    { x \in Range(actions) :
        /\ x.status = "Success"
        /\ IsSome(x.method_name)
        /\ Unwrap(x.method_name) \in NftMethods }

extract_nft_pairs(actions, events) ==
    LET acts == NftActionRows(actions)
        evs  == { e \in Range(events) : e.status = "Success" /\ IsSome(e.event) }
        mb   == { e \in evs : Unwrap(e.event) \in { "nft_mint", "nft_burn" } }
        tr   == { e \in evs : Unwrap(e.event) = "nft_transfer" }
    IN  { << a.predecessor_id, a.account_id >> : a \in acts }
        \cup { << Unwrap(a.args_receiver_id), a.account_id >> :
                 a \in { x \in acts : IsSome(x.args_receiver_id) } }
        \cup { << Unwrap(e.data_owner_id), e.account_id >> :
                 e \in { x \in mb : IsSome(x.data_owner_id) } }
        \cup { << Unwrap(e.data_new_owner_id), e.account_id >> :
                 e \in { x \in tr : IsSome(x.data_new_owner_id) } }
        \cup { << Unwrap(e.data_old_owner_id), e.account_id >> :
                 e \in { x \in tr : IsSome(x.data_old_owner_id) } }

(***************************************************************************)
(* A HashSet or HashMap is iterated in an order of its own: SetToSeq is    *)
(* one such order.                                                         *)
(***************************************************************************)
RECURSIVE SetToSeq(_)
SetToSeq(S) ==
    IF S = {} THEN << >>
    ELSE LET x == CHOOSE y \in S : TRUE
         IN  << x >> \o SetToSeq(S \ { x })

\* "".to_string(): a string is the sequence of its symbols.
EmptyString == << >>

\* format!("{}:{}", prefix, account_id): the prefixes hold no colon.
UpdateKey(prefix, account_id) == << prefix, account_id >>

\* to_update.entry(key).or_insert_with(Vec::new).push((token_id, ""))
RECURSIVE PushAll(_, _, _)
PushAll(prefix, pairs, to_update) ==
    IF pairs = << >> THEN to_update
    ELSE LET key   == UpdateKey(prefix, pairs[1][1])
             entry == << pairs[1][2], EmptyString >>
             old   == IF key \in DOMAIN to_update THEN to_update[key] ELSE << >>
             new   == [ k \in DOMAIN to_update \cup { key } |->
                          IF k = key THEN Append(old, entry) ELSE to_update[k] ]
         IN  PushAll(prefix, Tail(pairs), new)

add_pairs_to_update(prefix, pairs, to_update) ==
    PushAll(prefix, SetToSeq(pairs), to_update)

EmptyMap == [ k \in {} |-> << >> ]

\* The HashMap listen_blocks builds from one block.
ToUpdate(actions, events) ==
    LET ft == add_pairs_to_update("ft", extract_ft_pairs(actions, events), EmptyMap)
        nf == add_pairs_to_update("nf", extract_nft_pairs(actions, events), ft)
    IN  add_pairs_to_update("st", extract_staking_pairs(actions), nf)

(***************************************************************************)
(* The store.  hashes holds one triple (key, field, value) per field of a  *)
(* redis hash; marker is the string at meta:latest_block, when there is    *)
(* one.                                                                    *)
(***************************************************************************)
HasField(hashes, key, field) ==
    \E t \in hashes : t[1] = key /\ t[2] = field

\* HSET key field value: set the field, whatever it held.
HSetField(hashes, key, field, value) ==
    { t \in hashes : ~(t[1] = key /\ t[2] = field) } \cup { << key, field, value >> }

\* HSET key f1 v1 f2 v2 ...: one command, the fields in the order given.
RECURSIVE HSet(_, _, _)
HSet(hashes, key, fields_data) ==
    IF fields_data = << >> THEN hashes
    ELSE HSet(HSetField(hashes, key, fields_data[1][1], fields_data[1][2]),
              key, Tail(fields_data))

\* HSETNX key field value: set the field only when the hash has none.
HSetNx(hashes, key, field, value) ==
    IF HasField(hashes, key, field) THEN hashes
    ELSE hashes \cup { << key, field, value >> }

\* The value a field of a hash holds.
FieldValue(hashes, key, field) ==
    (CHOOSE t \in hashes : t[1] = key /\ t[2] = field)[3]

\* HINCRBY key field value: add to the field, or create it.
HIncrBy(hashes, key, field, value) ==
    IF HasField(hashes, key, field)
    THEN HSetField(hashes, key, field,
                   to_string(parse(FieldValue(hashes, key, field)) + parse(value)))
    ELSE hashes \cup { << key, field, value >> }

\* The server executes one command.
Exec(st, cmd) ==
    CASE cmd.op = "HSET" ->
           [ st EXCEPT !.hashes = HSet(@, cmd.key, cmd.args) ]
      [] cmd.op = "HSETNX" ->
           [ st EXCEPT !.hashes = HSetNx(@, cmd.key, cmd.args[1], cmd.args[2]) ]
      [] cmd.op = "HINCRBY" ->
           [ st EXCEPT !.hashes = HIncrBy(@, cmd.key, cmd.args[1], cmd.args[2]) ]
      [] cmd.op = "SET" ->
           [ st EXCEPT !.marker = Some(cmd.args) ]

RECURSIVE ExecAll(_, _)
ExecAll(st, cmds) ==
    IF cmds = << >> THEN st ELSE ExecAll(Exec(st, cmds[1]), Tail(cmds))

\* The orders in which the keys of a HashMap can be iterated.
Orders(S) == { s \in [ 1 .. Cardinality(S) -> S ] : Range(s) = S }

(***************************************************************************)
(* ft_red: the pipeline of one block.  One HSET per key of to_update, in   *)
(* the map's iteration order, then the SET of meta:latest_block.           *)
(***************************************************************************)
HSetCmds(to_update, order) ==
    [ i \in DOMAIN order |->
        [ op |-> "HSET", key |-> order[i], args |-> to_update[order[i]] ] ]

SetMarkerCmd(block_height) ==
    [ op |-> "SET", key |-> << "meta", "latest_block" >>,
      args |-> to_string(block_height) ]

MarkerFirstPipeline(to_update, order, block_height) ==
    << SetMarkerCmd(block_height) >> \o HSetCmds(to_update, order)

BlockPipeline(to_update, order, block_height) ==
    HSetCmds(to_update, order) \o << SetMarkerCmd(block_height) >>

(***************************************************************************)
(* The channel mpsc::channel(100): send completes only while the buffer    *)
(* holds fewer items than its capacity, recv takes the oldest item.        *)
(***************************************************************************)
CanSendAlways(q) == TRUE

CanSend(q) == Len(q) < CHANNEL_CAPACITY

AwaitsNothing(d) == d.pc \in { "recv", "commit" }

\* The loop calls recv() again only when the commit it awaited has returned.
AwaitsRecv(d) == d.pc = "recv"

RecvNoneWhenEmpty(q, sender) == q = << >>

\* recv() returns None: the buffer is empty and the sender was dropped.
RecvNone(q, sender) == q = << >> /\ sender.pc = "done"

RecvNewest(q) == q[Len(q)]

RecvItem(q) == Head(q)

(***************************************************************************)
(* ft_red: the stream.  xread(1, final_blocks, last_id) returns the first  *)
(* entry whose id is greater than last_id, and waits when there is none.   *)
(***************************************************************************)
FromId(lg, last_id) == SelectSeq(lg, LAMBDA e : ~IdLess(e.id, last_id))

After(lg, last_id) == SelectSeq(lg, LAMBDA e : IdLess(last_id, e.id))

HasNext(lg, last_id) == After(lg, last_id) # << >>

XRead(lg, last_id) == Head(After(lg, last_id))

KeepCursor(last_id, id) == last_id

LostCursor(last_id) == ZeroId

\* continue: the next turn of the loop reads with last_id as it is.
RetryCursor(last_id) == last_id

\* last_id = id, after the send has returned.
NextCursor(last_id, id) == id

(***************************************************************************)
(* ft_red: main's choice of the resume height and its safety check.        *)
(***************************************************************************)
LastBlockHeightFromFirst(first_block_height, stored) ==
    IF IsSome(stored) THEN parse(Unwrap(stored))
    ELSE first_block_height

LastBlockHeightFromFloor(first_block_height, stored) ==
    first_block_height + SAFE_OFFSET

\* get("meta:latest_block").map(|s| s.parse()).unwrap_or(first + SAFE_OFFSET)
LastBlockHeight(first_block_height, stored) ==
    IF IsSome(stored) THEN parse(Unwrap(stored))
    ELSE first_block_height + SAFE_OFFSET

TooCloseInclusive(first_block_height, last_block_height) ==
    first_block_height + SAFE_OFFSET >= last_block_height

\* if first_block_height + SAFE_OFFSET > last_block_height { panic!(...) }
TooClose(first_block_height, last_block_height) ==
    first_block_height + SAFE_OFFSET > last_block_height

(***************************************************************************)
(* Sample data: accounts, rows and blocks.                                 *)
(***************************************************************************)
alice == << "alice", "near" >>

bob == << "bob", "near" >>

usdc == << "usdc", "near" >>

nft == << "nft", "near" >>

pool == << "v", "poolv1", "near" >>

carol == << "carol", "near" >>

ActionRow(status, action, account_id, predecessor_id, method_name, args_receiver_id) ==
    [ status |-> status, action |-> action, account_id |-> account_id,
      predecessor_id |-> predecessor_id, method_name |-> method_name,
      args_receiver_id |-> args_receiver_id ]

EventRow(status, account_id, event, data_owner_id, data_new_owner_id, data_old_owner_id) ==
    [ status |-> status, account_id |-> account_id, event |-> event,
      data_owner_id |-> data_owner_id, data_new_owner_id |-> data_new_owner_id,
      data_old_owner_id |-> data_old_owner_id ]

\* A block without a row of interest.
RowsEmpty == [ actions |-> << >>, events |-> << >> ]

\* alice transfers usdc to bob.
RowsTransfer ==
    [ actions |-> << ActionRow("Success", "FunctionCall", usdc, alice,
                               Some("ft_transfer"), Some(bob)) >>,
      events  |-> << >> ]

\* A failed transfer, a deposit into a staking pool and an NFT mint.
RowsMixed ==
    [ actions |-> << ActionRow("Failure", "FunctionCall", usdc, bob,
                               Some("ft_transfer"), Some(alice)),
                     ActionRow("Success", "FunctionCall", pool, alice,
                               Some("deposit_and_stake"), None) >>,
      events  |-> << EventRow("Success", nft, Some("nft_mint"), Some(bob), None, None) >> ]

RowsChoices == { RowsEmpty, RowsTransfer, RowsMixed }

\* The stream entry of a block: id "<height>-0", one field, block.
Entry(height, rows) ==
    [ id |-> << height, 0 >>,
      block |-> [ height |-> height, actions |-> rows.actions, events |-> rows.events ] ]

\* The height of the first entry of the stream.
FirstHeight == 1

\* Streams of the short scenarios: the first entry, an entry at the resume
\* floor, and MaxTail entries after it.
ShortLogs ==
    { << Entry(FirstHeight, RowsEmpty), Entry(FirstHeight + SAFE_OFFSET, RowsTransfer) >>
        \o [ i \in 1 .. MaxTail |-> Entry(FirstHeight + SAFE_OFFSET + i, rows[i]) ] :
      rows \in [ 1 .. MaxTail -> RowsChoices ] }

\* What meta:latest_block holds when the process first starts: nothing, or
\* a height written by an earlier deployment.
StoredMarkers ==
    { None } \cup { Some(to_string(FirstHeight + SAFE_OFFSET + d)) : d \in { -1, 0, 1 } }

(***************************************************************************)
(* The state.                                                              *)
(***************************************************************************)
VARIABLES
    prog,          \* the binary that runs: "ft_red" or "balances_backfill"
    log,           \* ft_red: the entries of the stream final_blocks
    input,         \* balances_backfill: the records of the export file
    store,         \* the write store: [hashes, marker]
    main,          \* main: [pc, first_block_height, last_block_height]
    reader,        \* ft_red start(): [pc, last_id, msg]
    producer,      \* balances_backfill start(): [pc, i, pairs, new_pairs]
    queue,         \* the mpsc channel's buffer
    driver,        \* listen_blocks / process_balances: [pc, msg, pairs,
                   \*   to_update, results, pipe, done, total_pairs, base, full]
    faults,        \* connection errors so far
    crashes,       \* abrupt stops so far
    enq,           \* history: what this run's producer sent, in order
    deq,           \* history: what this run's consumer received, in order
    acked,         \* history: what this run's commits returned Ok for, in order
    checkpointed   \* history: heights whose SET the server executed

vars ==
    << prog, log, input, store, main, reader, producer, queue, driver,
       faults, crashes, enq, deq, acked, checkpointed >>

\* What the histories record of a queue item: a block's height, or the batch.
Tag(item) == IF prog = "ft_red" THEN item.height ELSE item

MainStart == [ pc |-> "start", first_block_height |-> None, last_block_height |-> None ]

ReaderIdle == [ pc |-> "idle", last_id |-> None, msg |-> None ]

ProducerIdle == [ pc |-> "idle", i |-> 0, pairs |-> << >>, new_pairs |-> << >> ]

EmptyStore == [ hashes |-> {}, marker |-> None ]

\* The three HashSets listen_blocks extracts from one block.
NoPairs == [ ft |-> {}, nf |-> {}, st |-> {} ]

\* base and full are history fields: the store as it was when the commit
\* began, and the number of attempts of the commit in which the server
\* executed the whole pipeline.
DriverIdle ==
    [ pc |-> "idle", msg |-> None, pairs |-> NoPairs, to_update |-> EmptyMap,
      results |-> << >>, pipe |-> << >>, done |-> 0, total_pairs |-> 0,
      base |-> EmptyStore, full |-> 0 ]

InitFtShort ==
    /\ prog = "ft_red"
    /\ log \in ShortLogs
    /\ input = << >>
    /\ store \in { [ hashes |-> {}, marker |-> m ] : m \in StoredMarkers }
    /\ main = MainStart
    /\ reader = ReaderIdle
    /\ producer = ProducerIdle
    /\ queue = << >>
    /\ driver = DriverIdle
    /\ faults = 0
    /\ crashes = 0
    /\ enq = << >>
    /\ deq = << >>
    /\ acked = << >>
    /\ checkpointed = {}

\* The long scenario: more blocks after the resume floor than the channel
\* holds, no stored marker, no connection error, no stop.
LongLog ==
    << Entry(FirstHeight, RowsEmpty) >>
      \o [ i \in 1 .. CHANNEL_CAPACITY + LongExtra |->
             Entry(FirstHeight + SAFE_OFFSET + i, RowsEmpty) ]

InitFtLong ==
    /\ prog = "ft_red"
    /\ log = LongLog
    /\ input = << >>
    /\ store = EmptyStore
    /\ main = MainStart
    /\ reader = ReaderIdle
    /\ producer = ProducerIdle
    /\ queue = << >>
    /\ driver = DriverIdle
    /\ faults = MaxFaults
    /\ crashes = MaxCrashes
    /\ enq = << >>
    /\ deq = << >>
    /\ acked = << >>
    /\ checkpointed = {}

(***************************************************************************)
(* ft_red: main, up to the call of listen_blocks.                          *)
(***************************************************************************)
FtMain ==
    /\ prog = "ft_red"
    /\ main.pc = "start"
    /\ HasNext(log, ZeroId)
    /\ LET first == IdHeight(XRead(log, ZeroId).id)
           last  == LastBlockHeight(first, store.marker)
       IN  /\ main' = [ pc |-> IF TooClose(first, last) THEN "panicked" ELSE "listening",
                        first_block_height |-> Some(first),
                        last_block_height |-> Some(last) ]
           /\ IF TooClose(first, last)
              THEN UNCHANGED << reader, driver >>
              ELSE /\ reader' = [ pc |-> "read", last_id |-> Some(FormatId(last)),
                                  msg |-> None ]
                   /\ driver' = [ DriverIdle EXCEPT !.pc = "recv" ]
    /\ UNCHANGED << prog, log, input, store, producer, queue, faults, crashes,
                    enq, deq, acked, checkpointed >>

(***************************************************************************)
(* ft_red: start(), the reader.                                            *)
(***************************************************************************)
\* xread returns the next entry; the reader decodes it and reaches send.
ReaderRead ==
    /\ reader.pc = "read"
    /\ HasNext(log, Unwrap(reader.last_id))
    /\ reader' = [ reader EXCEPT !.pc = "send",
                                 !.msg = Some(XRead(log, Unwrap(reader.last_id))) ]
    /\ UNCHANGED << prog, log, input, store, main, producer, queue, driver,
                    faults, crashes, enq, deq, acked, checkpointed >>

\* xread fails: log, sleep, reconnect, continue with the same last_id.
ReaderReadErr ==
    /\ reader.pc = "read"
    /\ faults < MaxFaults
    /\ faults' = faults + 1
    /\ reader' = [ reader EXCEPT !.last_id = Some(RetryCursor(Unwrap(reader.last_id))) ]
    /\ UNCHANGED << prog, log, input, store, main, producer, queue, driver,
                    crashes, enq, deq, acked, checkpointed >>

\* blocks_sink.send(streamer_message).await, then last_id = id.
ReaderSend ==
    /\ reader.pc = "send"
    /\ CanSend(queue)
    /\ queue' = Append(queue, Unwrap(reader.msg).block)
    /\ enq' = Append(enq, Tag(Unwrap(reader.msg).block))
    /\ reader' = [ pc |-> "read", last_id |-> Some(NextCursor(Unwrap(reader.last_id), Unwrap(reader.msg).id)),
                  msg |-> None ]
    /\ UNCHANGED << prog, log, input, store, main, producer, driver,
                    faults, crashes, deq, acked, checkpointed >>

(***************************************************************************)
(* ft_red: listen_blocks, the driver.                                      *)
(***************************************************************************)
\* stream.recv() returns a block; the driver extracts and builds the pipeline.
DriverRecv ==
    /\ prog = "ft_red"
    /\ AwaitsRecv(driver)
    /\ queue # << >>
    /\ LET msg       == RecvItem(queue)
           to_update == ToUpdate(msg.actions, msg.events)
       IN  \E order \in Orders(DOMAIN to_update) :
              driver' = [ driver EXCEPT
                            !.pc = "commit",
                            !.msg = Some(msg),
                            !.to_update = to_update,
                            !.pipe = BlockPipeline(to_update, order, msg.height),
                            !.done = 0,
                            !.base = store,
                            !.full = 0 ]
    /\ queue' = Tail(queue)
    /\ deq' = Append(deq, Tag(RecvItem(queue)))
    /\ UNCHANGED << prog, log, input, store, main, reader, producer,
                    faults, crashes, enq, acked, checkpointed >>

(***************************************************************************)
(* Both programs: one attempt of with_retries, and the server's part.      *)
(***************************************************************************)
\* The server executes the next command of the pipeline it was sent.
ServerExec ==
    /\ driver.pc = "commit"
    /\ driver.done < Len(driver.pipe)
    /\ LET cmd == driver.pipe[driver.done + 1]
       IN  /\ store' = Exec(store, cmd)
           /\ checkpointed' = IF cmd.op = "SET"
                              THEN checkpointed \cup { parse(cmd.args) }
                              ELSE checkpointed
    /\ driver' = [ driver EXCEPT
                    !.done = @ + 1,
                    !.full = IF driver.done + 1 = Len(driver.pipe) THEN @ + 1 ELSE @ ]
    /\ UNCHANGED << prog, log, input, main, reader, producer, queue,
                    faults, crashes, enq, deq, acked >>

\* The connection fails during the attempt, after any number of commands:
\* with_retries sleeps, reconnects and sends the same pipeline again.
CommitErr ==
    /\ driver.pc = "commit"
    /\ faults < MaxFaults
    /\ faults' = faults + 1
    /\ driver' = [ driver EXCEPT !.done = 0 ]
    /\ UNCHANGED << prog, log, input, store, main, reader, producer, queue,
                    crashes, enq, deq, acked, checkpointed >>

\* The reply to the whole pipeline arrives: the commit returns Ok.
CommitOk ==
    /\ driver.pc = "commit"
    /\ driver.done = Len(driver.pipe)
    /\ driver' = [ driver EXCEPT !.pc = "recv" ]
    /\ acked' = Append(acked, Tag(Unwrap(driver.msg)))
    /\ UNCHANGED << prog, log, input, store, main, reader, producer, queue,
                    faults, crashes, enq, deq, checkpointed >>

(***************************************************************************)
(* The process stops abruptly and is started again: everything in memory   *)
(* is lost, the stream and the store stay.                                 *)
(***************************************************************************)
Crash ==
    /\ main.pc # "start"
    /\ crashes < MaxCrashes
    /\ crashes' = crashes + 1
    /\ main' = MainStart
    /\ reader' = ReaderIdle
    /\ producer' = ProducerIdle
    /\ driver' = DriverIdle
    /\ queue' = << >>
    /\ enq' = << >>
    /\ deq' = << >>
    /\ acked' = << >>
    /\ UNCHANGED << prog, log, input, store, faults, checkpointed >>

(***************************************************************************)
(* balances_backfill: records, pairs, tasks and the pipeline of a batch.   *)
(***************************************************************************)
\* format!("{}:{}", token_id, account_id): a string is its symbols.
FormatPair(token_id, account_id) == token_id \o << ":" >> \o account_id

\* pair.split_once(':').unwrap()
ColonAt(pair) == CHOOSE i \in DOMAIN pair : pair[i] = ":" /\ \A j \in 1 .. i - 1 : pair[j] # ":"

SplitOnce(pair) ==
    << SubSeq(pair, 1, ColonAt(pair) - 1), SubSeq(pair, ColonAt(pair) + 1, Len(pair)) >>

\* RpcTask::FtPair { block_height: None, token_id, account_id }
FtPairTask(pair) ==
    [ block_height |-> None, token_id |-> SplitOnce(pair)[1],
      account_id |-> SplitOnce(pair)[2] ]

Tasks(pairs) == [ i \in DOMAIN pairs |-> FtPairTask(pairs[i]) ]

\* The balances the RPC may report for an account at one time or another:
\* alice's balance changes over time, carol holds no token at all.
Balances(account_id) ==
    IF account_id = alice THEN { 7, 12 }
    ELSE IF account_id = bob THEN { 7 }
    ELSE {}

\* What the RPC may answer to one task: no result, or a balance.
TaskResults(task) == { None } \cup { Some(b) : b \in Balances(task.account_id) }

\* fetch_from_rpc returns one RpcResultPair per task, in the tasks' order.
RpcResults(tasks) ==
    { [ i \in DOMAIN tasks |-> [ task |-> tasks[i], result |-> r[i] ] ] :
        r \in { f \in [ DOMAIN tasks -> UNION { TaskResults(tasks[i]) : i \in DOMAIN tasks } ] :
                  \A i \in DOMAIN tasks : f[i] \in TaskResults(tasks[i]) } }

BalanceCmdSet(pair) ==
    [ op |-> "HSET", key |-> << "b", pair.task.token_id >>,
      args |-> << << pair.task.account_id, to_string(Unwrap(pair.result)) >> >> ]

BalanceCmdIncr(pair) ==
    [ op |-> "HINCRBY", key |-> << "b", pair.task.token_id >>,
      args |-> << pair.task.account_id, to_string(Unwrap(pair.result)) >> ]

\* pipe.cmd("HSETNX").arg("b:{token_id}").arg(account_id).arg(balance.to_string())
BalanceCmd(pair) ==
    [ op |-> "HSETNX", key |-> << "b", pair.task.token_id >>,
      args |-> << pair.task.account_id, to_string(Unwrap(pair.result)) >> ]

\* break where the loop has continue.
RECURSIVE BalancePipelineStop(_)
BalancePipelineStop(results) ==
    IF results = << >> THEN << >>
    ELSE IF results[1].result = None THEN << >>
    ELSE << BalanceCmd(results[1]) >> \o BalancePipelineStop(Tail(results))

\* One HSETNX per result that is present, in the results' order.
RECURSIVE BalancePipeline(_)
BalancePipeline(results) ==
    IF results = << >> THEN << >>
    ELSE IF results[1].result = None THEN BalancePipeline(Tail(results))
    ELSE << BalanceCmd(results[1]) >> \o BalancePipeline(Tail(results))

Record(account_id, token_id) == << account_id, token_id >>

RecordChoices == { Record(alice, usdc), Record(bob, usdc) }

ShortInputs == UNION { [ 1 .. n -> RecordChoices ] : n \in 0 .. MaxRecords }

InitBfShort ==
    /\ prog = "balances_backfill"
    /\ log = << >>
    /\ input \in ShortInputs
    /\ store = EmptyStore
    /\ main = MainStart
    /\ reader = ReaderIdle
    /\ producer = ProducerIdle
    /\ queue = << >>
    /\ driver = DriverIdle
    /\ faults = 0
    /\ crashes = 0
    /\ enq = << >>
    /\ deq = << >>
    /\ acked = << >>
    /\ checkpointed = {}

\* The long scenario: more batches than the channel holds.
LongInput ==
    [ i \in 1 .. (CHANNEL_CAPACITY + LongExtra) * BatchSize |-> Record(carol, usdc) ]

InitBfLong ==
    /\ prog = "balances_backfill"
    /\ log = << >>
    /\ input = LongInput
    /\ store = EmptyStore
    /\ main = MainStart
    /\ reader = ReaderIdle
    /\ producer = ProducerIdle
    /\ queue = << >>
    /\ driver = DriverIdle
    /\ faults = MaxFaults
    /\ crashes = MaxCrashes
    /\ enq = << >>
    /\ deq = << >>
    /\ acked = << >>
    /\ checkpointed = {}

\* main: the streamer is spawned and process_balances is called.
BfMain ==
    /\ prog = "balances_backfill"
    /\ main.pc = "start"
    /\ main' = [ main EXCEPT !.pc = "processing" ]
    /\ producer' = [ ProducerIdle EXCEPT !.pc = "read" ]
    /\ driver' = [ DriverIdle EXCEPT !.pc = "recv" ]
    /\ UNCHANGED << prog, log, input, store, reader, queue, faults, crashes,
                    enq, deq, acked, checkpointed >>

(***************************************************************************)
(* balances_backfill: start(), the producer.                               *)
(***************************************************************************)
\* One turn of the for loop: push the pair; at the threshold swap the
\* vector out and reach send.
ProducerRead ==
    /\ producer.pc = "read"
    /\ producer.i < Len(input)
    /\ LET record     == input[producer.i + 1]
           token_id   == record[2]
           account_id == record[1]
           pairs      == Append(producer.pairs, FormatPair(token_id, account_id))
       IN  producer' =
             IF Len(pairs) = BatchSize
             THEN [ pc |-> "send", i |-> producer.i + 1, pairs |-> << >>,
                    new_pairs |-> pairs ]
             ELSE [ pc |-> "read", i |-> producer.i + 1, pairs |-> pairs,
                    new_pairs |-> << >> ]
    /\ UNCHANGED << prog, log, input, store, main, reader, queue, driver,
                    faults, crashes, enq, deq, acked, checkpointed >>

\* blocks_sink.send(new_pairs).await
ProducerSend ==
    /\ producer.pc = "send"
    /\ CanSend(queue)
    /\ queue' = Append(queue, producer.new_pairs)
    /\ enq' = Append(enq, Tag(producer.new_pairs))
    /\ producer' = [ producer EXCEPT !.pc = "read", !.new_pairs = << >> ]
    /\ UNCHANGED << prog, log, input, store, main, reader, driver,
                    faults, crashes, deq, acked, checkpointed >>

\* The records are exhausted: the loop ends, start() returns and the
\* sender is dropped.  What pairs still holds is dropped with it.
ProducerEnd ==
    /\ producer.pc = "read"
    /\ producer.i = Len(input)
    /\ producer' = [ producer EXCEPT !.pc = "done" ]
    /\ UNCHANGED << prog, log, input, store, main, reader, queue, driver,
                    faults, crashes, enq, deq, acked, checkpointed >>

(***************************************************************************)
(* balances_backfill: process_balances and update_balances, the consumer.  *)
(***************************************************************************)
\* stream.recv() returns a batch: total_pairs += pairs.len().
ConsumerRecv ==
    /\ prog = "balances_backfill"
    /\ AwaitsRecv(driver)
    /\ queue # << >>
    /\ driver' = [ driver EXCEPT !.pc = "fetch",
                                 !.msg = Some(RecvItem(queue)),
                                 !.total_pairs = @ + Len(RecvItem(queue)) ]
    /\ queue' = Tail(queue)
    /\ deq' = Append(deq, Tag(RecvItem(queue)))
    /\ UNCHANGED << prog, log, input, store, main, reader, producer,
                    faults, crashes, enq, acked, checkpointed >>

\* fetch_from_rpc returns the results; the pipeline is built from them.
ConsumerFetch ==
    /\ driver.pc = "fetch"
    /\ \E results \in RpcResults(Tasks(Unwrap(driver.msg))) :
          driver' = [ driver EXCEPT !.pc = "commit",
                                    !.results = results,
                                    !.pipe = BalancePipeline(results),
                                    !.done = 0,
                                    !.base = store,
                                    !.full = 0 ]
    /\ UNCHANGED << prog, log, input, store, main, reader, producer, queue,
                    faults, crashes, enq, deq, acked, checkpointed >>

\* fetch_from_rpc fails: expect() panics and the process ends.
ConsumerFetchErr ==
    /\ driver.pc = "fetch"
    /\ faults < MaxFaults
    /\ faults' = faults + 1
    /\ driver' = [ driver EXCEPT !.pc = "panicked" ]
    /\ main' = [ main EXCEPT !.pc = "panicked" ]
    /\ producer' = [ producer EXCEPT !.pc = "dead" ]
    /\ UNCHANGED << prog, log, input, store, reader, queue, crashes,
                    enq, deq, acked, checkpointed >>

\* The channel is empty and closed: recv() returns None, the loop and
\* main end.
ConsumerEnd ==
    /\ prog = "balances_backfill"
    /\ driver.pc = "recv"
    /\ RecvNone(queue, producer)
    /\ driver' = [ driver EXCEPT !.pc = "done" ]
    /\ main' = [ main EXCEPT !.pc = "exited" ]
    /\ UNCHANGED << prog, log, input, store, reader, producer, queue,
                    faults, crashes, enq, deq, acked, checkpointed >>

(***************************************************************************)
(* ft_red: the body of listen_blocks on the rows of one block, for rows    *)
(* drawn from a universe of actions and events.                            *)
(***************************************************************************)
ActionRows ==
    { ActionRow(status, "FunctionCall", account_id, alice, method_name, args_receiver_id) :
        status \in { "Success", "Failure" },
        account_id \in { usdc, pool },
        method_name \in { None, Some("ft_transfer"), Some("nft_transfer"),
                          Some("deposit_and_stake") },
        args_receiver_id \in { None, Some(bob) } }
      \cup { ActionRow("Success", "Transfer", account_id, alice, None, None) :
                account_id \in { usdc, pool } }

EventRows ==
    { EventRow(status, account_id, event, owner[1], owner[2], owner[3]) :
        status \in { "Success", "Failure" },
        account_id \in { usdc, pool },
        event \in { None, Some("ft_transfer"), Some("ft_mint"), Some("nft_transfer"),
                    Some("nft_burn") },
        owner \in { << None, None, None >>, << Some(alice), Some(bob), Some(carol) >> } }

\* The rows of a block: up to MaxActions actions and MaxEvents events.
ActionLists == UNION { [ 1 .. n -> ActionRows ] : n \in 0 .. MaxActions }

EventLists == UNION { [ 1 .. n -> EventRows ] : n \in 0 .. MaxEvents }

InitRows ==
    /\ prog = "rows"
    /\ log = << >>
    /\ \E a \in ActionLists, e \in EventLists : input = [ actions |-> a, events |-> e ]
    /\ store = EmptyStore
    /\ main = MainStart
    /\ reader = ReaderIdle
    /\ producer = ProducerIdle
    /\ queue = << >>
    /\ driver = DriverIdle
    /\ faults = 0
    /\ crashes = 0
    /\ enq = << >>
    /\ deq = << >>
    /\ acked = << >>
    /\ checkpointed = {}

\* The three extractors are applied to the rows.
ExtractPairs ==
    /\ prog = "rows"
    /\ driver.pc = "idle"
    /\ driver' = [ driver EXCEPT
                    !.pc = "extracted",
                    !.pairs = [ ft |-> extract_ft_pairs(input.actions, input.events),
                                nf |-> extract_nft_pairs(input.actions, input.events),
                                st |-> extract_staking_pairs(input.actions) ] ]
    /\ UNCHANGED << prog, log, input, store, main, reader, producer, queue,
                    faults, crashes, enq, deq, acked, checkpointed >>

\* to_update and the pipeline are built from the pairs.
BuildUpdate ==
    /\ prog = "rows"
    /\ driver.pc = "extracted"
    /\ LET to_update == ToUpdate(input.actions, input.events)
       IN  \E order \in Orders(DOMAIN to_update) :
              driver' = [ driver EXCEPT
                            !.pc = "built",
                            !.to_update = to_update,
                            !.pipe = BlockPipeline(to_update, order, FirstHeight) ]
    /\ UNCHANGED << prog, log, input, store, main, reader, producer, queue,
                    faults, crashes, enq, deq, acked, checkpointed >>

NextRows == ExtractPairs \/ BuildUpdate

SpecRows == InitRows /\ [][NextRows]_vars

NextFt ==
    \/ FtMain
    \/ ReaderRead
    \/ ReaderReadErr
    \/ ReaderSend
    \/ DriverRecv
    \/ ServerExec
    \/ CommitErr
    \/ CommitOk
    \/ Crash

SpecFt == (InitFtShort \/ InitFtLong) /\ [][NextFt]_vars

NextBf ==
    \/ BfMain
    \/ ProducerRead
    \/ ProducerSend
    \/ ProducerEnd
    \/ ConsumerRecv
    \/ ConsumerFetch
    \/ ConsumerFetchErr
    \/ ConsumerEnd
    \/ ServerExec
    \/ CommitErr
    \/ CommitOk
    \/ Crash

SpecBf == (InitBfShort \/ InitBfLong) /\ [][NextBf]_vars

Init == InitFtShort \/ InitFtLong \/ InitBfShort \/ InitBfLong

Next ==
    \/ FtMain
    \/ ReaderRead
    \/ ReaderReadErr
    \/ ReaderSend
    \/ DriverRecv
    \/ BfMain
    \/ ProducerRead
    \/ ProducerSend
    \/ ProducerEnd
    \/ ConsumerRecv
    \/ ConsumerFetch
    \/ ConsumerFetchErr
    \/ ConsumerEnd
    \/ ServerExec
    \/ CommitErr
    \/ CommitOk
    \/ Crash

Spec == Init /\ [][Next]_vars

(***************************************************************************)
(* Properties.                                                             *)
(***************************************************************************)
\* The height meta:latest_block holds; -1 when the key is absent.
MarkerHeight(st) == IF IsSome(st.marker) THEN parse(Unwrap(st.marker)) ELSE -1

\* The step in which the driver's commit returns Ok.
CommitReturns == driver.pc = "commit" /\ driver'.pc = "recv"

\* The triples the commit of a block writes into the hashes.
PresenceFields(block) ==
    LET to_update == ToUpdate(block.actions, block.events)
    IN  UNION { { << key, e[1], e[2] >> : e \in Range(to_update[key]) } :
                key \in DOMAIN to_update }

\* The blocks of the stream with one of the given heights.
BlocksAt(heights) == { e.block : e \in { x \in Range(log) : x.block.height \in heights } }

(***************************************************************************)
(* C1.  In ft_red the persisted marker meta:latest_block never decreases   *)
(* (an absent marker counts as below every height), whatever is retried    *)
(* or restarted, and in the step in which a commit returns Ok the marker   *)
(* is the decimal text of the height of the block just committed.          *)
(***************************************************************************)
C1_MarkerMonotone ==
    [][ prog = "ft_red" =>
          /\ MarkerHeight(store) <= MarkerHeight(store')
          /\ CommitReturns =>
               store'.marker = Some(to_string(Unwrap(driver.msg).height)) ]_vars

\* Two commits returned Ok after a restart, one of them after a retry.
C1_Witness ==
    /\ prog = "ft_red"
    /\ crashes > 0
    /\ faults > 0
    /\ Len(acked) >= 2
    /\ MarkerHeight(store) = acked[Len(acked)]

(***************************************************************************)
(* C2.  In ft_red the marker is never ahead of the data it covers: in      *)
(* every state, also between two commands of a pipeline and after a failed *)
(* attempt, the marker is at least every height whose SET the server has   *)
(* executed, and for every such height (the marker's own, once this        *)
(* program wrote it, and every block committed before it) all presence     *)
(* fields of that block are in the store.                                  *)
(***************************************************************************)
C2_MarkerNotAhead ==
    prog = "ft_red" =>
      /\ \A h \in checkpointed : h <= MarkerHeight(store)
      /\ \A b \in BlocksAt(checkpointed) : PresenceFields(b) \subseteq store.hashes

\* A retried attempt of a block with fields is under way, the marker
\* already at the block's height from the attempt that failed.
C2_Witness ==
    /\ prog = "ft_red"
    /\ driver.pc = "commit"
    /\ driver.done = 0
    /\ Len(driver.pipe) > 2
    /\ MarkerHeight(store) = Unwrap(driver.msg).height

(***************************************************************************)
(* C3.  A batch commit never partially applies: whenever an attempt of a   *)
(* commit begins, the first or one that follows a connection error, the    *)
(* store holds either none of the commit's mutations (it is as it was when *)
(* the commit began) or all of them.                                       *)
(***************************************************************************)
C3_AllOrNothing ==
    (driver.pc = "commit" /\ driver.done = 0) =>
       store \in { driver.base, ExecAll(driver.base, driver.pipe) }

(***************************************************************************)
(* C4.  No update is lost across a restart of ft_red.  While the process   *)
(* runs with a persisted marker, every entry of the stream above the       *)
(* marker is still ahead of the reader's cursor, waiting in the channel,   *)
(* or the block the driver is committing; and, the process stopping at any *)
(* point and being started again, every such entry is eventually           *)
(* committed.                                                              *)
(***************************************************************************)
C4_NoSkip ==
    (prog = "ft_red" /\ main.pc = "listening" /\ IsSome(store.marker)) =>
       \A e \in Range(log) :
          e.block.height > MarkerHeight(store) =>
             \/ IdLess(Unwrap(reader.last_id), e.id)
             \/ e.block \in Range(queue)
             \/ (driver.pc = "commit" /\ driver.msg = Some(e.block))

\* The heights above the resume floor, in the short scenarios.
TailHeights ==
    { FirstHeight + SAFE_OFFSET + i : i \in 1 .. MaxTail }

C4_Pending(h) ==
    /\ prog = "ft_red"
    /\ main.pc = "listening"
    /\ IsSome(store.marker)
    /\ h > MarkerHeight(store)
    /\ h \in { e.block.height : e \in Range(log) }

C4_NoUpdateLost ==
    /\ []C4_NoSkip
    /\ \A h \in TailHeights : C4_Pending(h) ~> (h \in checkpointed)

\* After a restart the driver committed an entry it received in the new run.
C4_Witness ==
    /\ prog = "ft_red"
    /\ crashes > 0
    /\ main.pc = "listening"
    /\ Len(acked) > 0
    /\ MarkerHeight(store) = acked[Len(acked)]
    /\ queue # << >>

\* The scheduler runs every task that can take a step, and the server
\* executes what it was sent; connection errors and stops are not forced.
FairFt ==
    /\ WF_vars(FtMain)
    /\ WF_vars(ReaderRead)
    /\ WF_vars(ReaderSend)
    /\ WF_vars(DriverRecv)
    /\ WF_vars(ServerExec)
    /\ WF_vars(CommitOk)

LiveFt == InitFtShort /\ [][NextFt]_vars /\ FairFt

(***************************************************************************)
(* C5.  ft_red never reprocesses an entry whose effects are checkpointed.  *)
(* After a start with persisted marker h the reader's first cursor is      *)
(* "h-0"; the entries it hands over have strictly increasing heights, all  *)
(* above the first cursor; and no entry waiting for the driver, in the     *)
(* channel or in the reader's hands, is at or below the marker or has had  *)
(* its SET executed.                                                       *)
(***************************************************************************)
C5_NoReprocess ==
    (prog = "ft_red" /\ main.pc = "listening") =>
       LET start   == Unwrap(main.last_block_height)
           waiting == Range(queue)
                        \cup { Unwrap(reader.msg).block : x \in { 1 } \cap { Len(reader.msg) } }
       IN  /\ (deq = << >> /\ IsSome(store.marker)) => start = MarkerHeight(store)
           /\ enq = << >> => reader.last_id = Some(<< start, 0 >>)
           /\ \A i \in DOMAIN enq :
                 /\ enq[i] > start
                 /\ i > 1 => enq[i] > enq[i - 1]
           /\ \A b \in waiting :
                 /\ b.height > MarkerHeight(store)
                 /\ b.height \notin checkpointed

\* After a stop, the driver is again at the first entry above the floor,
\* whose earlier commit wrote fields but never reached its SET.
C5_Witness ==
    /\ prog = "ft_red"
    /\ crashes > 0
    /\ driver.pc = "commit"
    /\ driver.done = 0
    /\ Unwrap(driver.msg).height = FirstHeight + SAFE_OFFSET + 1
    /\ MarkerHeight(store) < Unwrap(driver.msg).height
    /\ PresenceFields(Unwrap(driver.msg)) # {}
    /\ PresenceFields(Unwrap(driver.msg)) \subseteq driver.base.hashes

(***************************************************************************)
(* C6 as claimed.  With H the height of the head of the log and R the      *)
(* persisted marker: whenever H - R < SAFE_OFFSET, ft_red refuses to       *)
(* start.  The premise is taken for both ends of the log at once, the      *)
(* entry main reads from cursor "0" and the newest entry, so that the      *)
(* statement is the claim under either reading of "head".                  *)
(***************************************************************************)
C6_Original ==
    ( /\ prog = "ft_red"
      /\ main.pc \in { "listening", "panicked" }
      /\ deq = << >>
      /\ IsSome(store.marker)
      /\ Unwrap(main.first_block_height) - MarkerHeight(store) < SAFE_OFFSET
      /\ log[Len(log)].block.height - MarkerHeight(store) < SAFE_OFFSET )
    => main.pc = "panicked"

(***************************************************************************)
(* C6 as amended.  With F the height of the first entry of the stream and  *)
(* R the persisted marker, ft_red refuses to start exactly when            *)
(* R - F < SAFE_OFFSET (F + SAFE_OFFSET > R): the resume height must be at *)
(* least SAFE_OFFSET above the first entry.  It then aborts before the     *)
(* reader is spawned and before any block is received or committed.        *)
(***************************************************************************)
C6_Amended ==
    (prog = "ft_red" /\ main.pc \in { "listening", "panicked" }) =>
       LET F == Unwrap(main.first_block_height)
       IN  /\ F = log[1].block.height
           /\ main.pc = "panicked" =>
                /\ IsSome(store.marker)
                /\ MarkerHeight(store) - F < SAFE_OFFSET
                /\ reader.pc = "idle"
                /\ driver.pc = "idle"
                /\ queue = << >>
                /\ enq = << >> /\ deq = << >> /\ acked = << >>
           /\ (main.pc = "listening" /\ deq = << >> /\ IsSome(store.marker)) =>
                MarkerHeight(store) - F >= SAFE_OFFSET

\* main has refused to start.
C6_Witness == prog = "ft_red" /\ main.pc = "panicked" /\ IsSome(store.marker)

(***************************************************************************)
(* C7.  No record is dropped between the producer and the consumer of      *)
(* balances_backfill: when process_balances has ended, the number of pairs *)
(* handed to update_balances is the number of records of the input.        *)
(***************************************************************************)
C7_NoRecordDropped ==
    (prog = "balances_backfill" /\ driver.pc = "done") =>
       driver.total_pairs = Len(input)

(***************************************************************************)
(* C8.  Backpressure.  The channel never holds more than CHANNEL_CAPACITY  *)
(* items; what was sent is, in order, what was received followed by what   *)
(* the channel holds (every item sent is received once, none is lost); a   *)
(* send completes only from a state in which the channel has room; and the *)
(* ft_red reader's cursor moves only in such a step, so it stays behind    *)
(* the entry in its hands while the channel is full.                       *)
(***************************************************************************)
C8_Channel ==
    /\ Len(queue) <= CHANNEL_CAPACITY
    /\ enq = deq \o [ i \in DOMAIN queue |-> Tag(queue[i]) ]
    /\ reader.pc = "send" => IdLess(Unwrap(reader.last_id), Unwrap(reader.msg).id)

C8_Backpressure ==
    /\ []C8_Channel
    /\ [][ Len(enq') > Len(enq) =>
             /\ Len(queue) < CHANNEL_CAPACITY
             /\ queue' = Append(queue, queue'[Len(queue')]) ]_vars
    /\ [][ (reader.pc = "send" /\ reader'.last_id # reader.last_id) =>
             Len(queue) < CHANNEL_CAPACITY ]_vars

\* The channel is full and the producer waits in send.
C8_Witness ==
    /\ prog = "balances_backfill"
    /\ Len(queue) = CHANNEL_CAPACITY
    /\ producer.pc = "send"
    /\ Len(deq) > 0

(***************************************************************************)
(* C9.  The ft_red driver processes and commits the blocks in the order    *)
(* the reader sent them: what the driver has received is a prefix of what  *)
(* the reader sent, the commits that returned are a prefix of that, and    *)
(* the driver has received at most one block more than it has committed,   *)
(* the one it is committing.                                               *)
(***************************************************************************)
C9_FifoOrder ==
    (prog = "ft_red" /\ main.pc = "listening") =>
       /\ Len(deq) <= Len(enq)
       /\ deq = SubSeq(enq, 1, Len(deq))
       /\ Len(acked) <= Len(deq)
       /\ acked = SubSeq(deq, 1, Len(acked))
       /\ Len(deq) - Len(acked) = IF driver.pc = "commit" THEN 1 ELSE 0
       /\ driver.pc = "commit" => Unwrap(driver.msg).height = deq[Len(deq)]

\* Two commits have returned and more blocks wait in the channel.
C9_Witness ==
    /\ prog = "ft_red"
    /\ Len(acked) >= 2
    /\ Len(queue) >= 2
    /\ driver.pc = "commit"

(***************************************************************************)
(* C10.  Idempotent replay.  Executing the pipeline of a commit twice      *)
(* leaves any store as executing it once does, for the HSET and SET of     *)
(* ft_red and for the HSETNX of balances_backfill; and once an attempt has *)
(* executed the whole pipeline, the attempts that follow leave the store   *)
(* as that one application left it.                                        *)
(***************************************************************************)
SampleStores ==
    { [ hashes |-> h, marker |-> m ] :
        h \in SUBSET { << << "ft", alice >>, usdc, EmptyString >>,
                       << << "b", usdc >>, alice, to_string(3) >>,
                       << << "b", usdc >>, bob, to_string(40) >> },
        m \in { None, Some(to_string(FirstHeight + SAFE_OFFSET + 1)), Some(to_string(9999)) } }

C10_IdempotentReplay ==
    driver.pc = "commit" =>
       /\ \A st \in SampleStores \cup { store, driver.base } :
             ExecAll(ExecAll(st, driver.pipe), driver.pipe) = ExecAll(st, driver.pipe)
       /\ driver.full >= 1 => store = ExecAll(driver.base, driver.pipe)

\* The server has executed the whole pipeline of one commit twice.
C10_Witness ==
    /\ driver.pc = "commit"
    /\ driver.full >= 2
    /\ Len(driver.pipe) >= 2
    /\ store # driver.base

(***************************************************************************)
(* C11.  Dedup.  The mutation set of a batch holds each (subject, object)  *)
(* pair once: in ft_red the field list of a key <prefix>:<subject> holds   *)
(* each object once and the pipeline holds one HSET per key; in            *)
(* balances_backfill the pipeline holds one HSETNX per (token, account).   *)
(***************************************************************************)
NoRepeat(seq) == \A i, j \in DOMAIN seq : seq[i] = seq[j] => i = j

C11_FtDedup ==
    (prog \in { "rows", "ft_red" } /\ driver.pc \in { "built", "commit" }) =>
       /\ \A key \in DOMAIN driver.to_update :
             NoRepeat([ i \in DOMAIN driver.to_update[key] |-> driver.to_update[key][i][1] ])
       /\ NoRepeat([ i \in DOMAIN driver.pipe |-> << driver.pipe[i].op, driver.pipe[i].key >> ])

C11_BfDedup ==
    (prog = "balances_backfill" /\ driver.pc = "commit") =>
       NoRepeat([ i \in DOMAIN driver.pipe |->
                    << driver.pipe[i].key, driver.pipe[i].args[1] >> ])

C11_Dedup == C11_FtDedup /\ C11_BfDedup

(***************************************************************************)
(* C12.  extract_ft_pairs returns exactly: for each successful action with *)
(* a recognized FT method name whose target is no staking pool, the pair   *)
(* (predecessor, target) and, when a receiver argument is present,         *)
(* (receiver, target); for each successful ft_mint or ft_burn event, the   *)
(* pair (owner, target); for each successful ft_transfer event, the pairs  *)
(* (new owner, target) and (old owner, target); and nothing else.  One     *)
(* successful ft_transfer of alice.near on usdc.near naming bob.near gives *)
(* exactly {(alice.near, usdc.near), (bob.near, usdc.near)}.               *)
(***************************************************************************)
Accounts == { alice, bob, carol, usdc, nft, pool }

FtNames ==
    { "ft_transfer_call", "ft_transfer", "ft_mint", "ft_burn",
      "near_withdraw", "near_deposit", "deposit_and_stake" }

PoolTarget(id) ==
    /\ Len(id) >= 3
    /\ id[Len(id)] = "near"
    /\ id[Len(id) - 1] \in { "poolv1", "pool" }

FtActionImplies(a, p) ==
    /\ a.status = "Success"
    /\ \E m \in FtNames : a.method_name = Some(m)
    /\ ~PoolTarget(a.account_id)
    /\ p[2] = a.account_id
    /\ p[1] = a.predecessor_id \/ a.args_receiver_id = Some(p[1])

FtEventImplies(e, p) ==
    /\ e.status = "Success"
    /\ p[2] = e.account_id
    /\ \/ e.event \in { Some("ft_mint"), Some("ft_burn") } /\ e.data_owner_id = Some(p[1])
       \/ e.event = Some("ft_transfer")
            /\ (e.data_new_owner_id = Some(p[1]) \/ e.data_old_owner_id = Some(p[1]))

OneFtTransfer ==
    [ actions |-> << ActionRow("Success", "FunctionCall", usdc, alice,
                               Some("ft_transfer"), Some(bob)) >>,
      events  |-> << >> ]

C12_FtPairsExact ==
    (prog = "rows" /\ driver.pc \in { "extracted", "built" }) =>
       /\ driver.pairs.ft \subseteq Accounts \X Accounts
       /\ \A p \in Accounts \X Accounts :
             p \in driver.pairs.ft <=>
                \/ \E i \in DOMAIN input.actions : FtActionImplies(input.actions[i], p)
                \/ \E j \in DOMAIN input.events : FtEventImplies(input.events[j], p)
       /\ input = OneFtTransfer =>
             driver.pairs.ft = { << alice, usdc >>, << bob, usdc >> }

\* Pairs from an action and from the three owner fields of events.
C12_Witness ==
    /\ prog = "rows"
    /\ driver.pc = "extracted"
    /\ Len(input.actions) = 2
    /\ Len(input.events) = 1
    /\ { << alice, usdc >>, << bob, usdc >>, << carol, usdc >> } \subseteq driver.pairs.ft

(***************************************************************************)
(* C13.  Failed-entry exclusion.  A row whose status is not Success        *)
(* contributes nothing to the three extractors: they return what they      *)
(* return for the successful rows alone.  A block whose rows are all       *)
(* non-successful gives no pair and an empty to_update, and its pipeline   *)
(* is the SET of the marker alone.                                         *)
(***************************************************************************)
Succeeded(rows) == SelectSeq(rows, LAMBDA r : r.status = "Success")

C13_FailedExcluded ==
    (prog = "rows" /\ driver.pc \in { "extracted", "built" }) =>
       LET actions == Succeeded(input.actions)
           events  == Succeeded(input.events)
       IN  /\ driver.pairs.ft = extract_ft_pairs(actions, events)
           /\ driver.pairs.nf = extract_nft_pairs(actions, events)
           /\ driver.pairs.st = extract_staking_pairs(actions)
           /\ (actions = << >> /\ events = << >>) =>
                /\ driver.pairs = NoPairs
                /\ driver.pc = "built" =>
                     /\ driver.to_update = EmptyMap
                     /\ Len(driver.pipe) = 1
                     /\ driver.pipe[1].op = "SET"

\* A failed ft_transfer, a failed call of a staking pool and a failed
\* nft_transfer event: the pipeline is the SET alone.
C13_Witness ==
    /\ prog = "rows"
    /\ driver.pc = "built"
    /\ Len(driver.pipe) = 1
    /\ Len(input.actions) = 2
    /\ Len(input.events) = 1
    /\ input.actions[1].status = "Failure"
    /\ input.actions[1].method_name = Some("ft_transfer")
    /\ input.actions[1].account_id = usdc
    /\ input.actions[2].status = "Failure"
    /\ input.actions[2].account_id = pool
    /\ input.events[1].status = "Failure"
    /\ input.events[1].event = Some("nft_transfer")
    /\ IsSome(input.events[1].data_new_owner_id)

(***************************************************************************)
(* C14.  The ft_red reader moves its cursor only in the step in which the  *)
(* entry in its hands enters the channel, and then to that entry's id.  A  *)
(* failed read leaves the reader as it was, about to read with the same    *)
(* cursor; and while main listens the reader is reading or sending, it     *)
(* never ends.                                                             *)
(***************************************************************************)
C14_ReaderAlive ==
    (prog = "ft_red" /\ main.pc = "listening") =>
       /\ reader.pc \in { "read", "send" }
       /\ IsSome(reader.last_id)
       /\ reader.pc = "send" <=> IsSome(reader.msg)

C14_CursorAfterHandOff ==
    /\ []C14_ReaderAlive
    /\ [][ (prog = "ft_red" /\ main.pc = "listening" /\ main'.pc = "listening") =>
             /\ reader'.last_id # reader.last_id =>
                  /\ reader.pc = "send"
                  /\ queue' = Append(queue, Unwrap(reader.msg).block)
                  /\ reader'.last_id = Some(Unwrap(reader.msg).id)
             /\ Len(queue') > Len(queue) =>
                  /\ reader.pc = "send"
                  /\ reader'.last_id = Some(Unwrap(reader.msg).id)
             /\ faults' # faults => reader' = reader ]_vars

\* Two reads in a row have failed before any commit began; the reader then
\* read an entry, handed it over and moved its cursor to it.
C14_Witness ==
    /\ prog = "ft_red"
    /\ crashes = 0
    /\ faults = MaxFaults
    /\ deq = << >>
    /\ Len(enq) = 1
    /\ reader.pc = "read"
    /\ reader.last_id = Some(<< enq[1], 0 >>)

(***************************************************************************)
(* C15.  The driver blocks until the commit returns success.  It has       *)
(* received at most one batch more than it has committed, the one it is    *)
(* working on; it receives the next batch only when every batch received   *)
(* before has been committed; a failed attempt leaves it committing the    *)
(* same batch with the same pipeline; a commit returns only when the whole *)
(* pipeline is in the store; and during a commit the store is the store    *)
(* the commit began with plus effects of this batch's pipeline alone.      *)
(***************************************************************************)
C15_OneAtATime ==
    (prog \in { "ft_red", "balances_backfill" }) =>
       /\ Len(acked) <= Len(deq)
       /\ acked = SubSeq(deq, 1, Len(acked))
       /\ Len(deq) - Len(acked) =
             IF driver.pc \in { "fetch", "commit", "panicked" } THEN 1 ELSE 0
       /\ driver.pc \in { "fetch", "commit" } => Tag(Unwrap(driver.msg)) = deq[Len(deq)]
       /\ driver.pc = "commit" =>
             \E k \in 0 .. Len(driver.pipe) :
                store = ExecAll(driver.base, SubSeq(driver.pipe, 1, k))

C15_DriverBlocks ==
    /\ []C15_OneAtATime
    /\ [][ Len(deq') > Len(deq) => (driver.pc = "recv" /\ acked = deq) ]_vars
    /\ [][ (driver.pc = "commit" /\ faults' # faults) =>
             /\ driver'.pc = "commit"
             /\ driver'.msg = driver.msg
             /\ driver'.pipe = driver.pipe
             /\ queue' = queue /\ deq' = deq /\ acked' = acked ]_vars
    /\ [][ Len(acked') > Len(acked) =>
             /\ driver.pc = "commit"
             /\ acked' = Append(acked, Tag(Unwrap(driver.msg)))
             /\ store = ExecAll(driver.base, driver.pipe) ]_vars

\* In balances_backfill every connection error that does not end the
\* process is a failed attempt of a commit: after MaxFaults of them the
\* commit of the first batch has returned and the driver commits the next.
C15_Witness ==
    /\ prog = "balances_backfill"
    /\ crashes = 0
    /\ faults = MaxFaults
    /\ Len(acked) = 1
    /\ Len(deq) = 2
    /\ driver.pc = "commit"
    /\ Len(driver.pipe) >= 2
    /\ store # driver.base

(***************************************************************************)
(* C16.  Self-exclusion.  No pair that extract_ft_pairs or                 *)
(* extract_nft_pairs emits has a token identifier ending with              *)
(* .poolv1.near or .pool.near.                                             *)
(***************************************************************************)
C16_NoPoolToken ==
    (prog = "rows" /\ driver.pc \in { "extracted", "built" }) =>
       \A p \in driver.pairs.ft \cup driver.pairs.nf : ~PoolTarget(p[2])

(***************************************************************************)
(* C17.  Enrichment absence is not an error.  The tasks of a batch are the *)
(* (token, account) of its records, in order; the pipeline of its commit   *)
(* is one HSETNX b:<token> <account> <balance> for each task whose result  *)
(* is present, in order, and nothing for a task whose result is absent;    *)
(* and the commit of such a batch returns like any other, after which the  *)
(* consumer receives again.                                                *)
(***************************************************************************)
PresentResults(results) == SelectSeq(results, LAMBDA r : r.result # None)

C17_Pipeline ==
    (prog = "balances_backfill" /\ driver.pc = "commit") =>
       LET first   == (Len(deq) - 1) * BatchSize
           present == PresentResults(driver.results)
       IN  /\ Len(driver.results) = BatchSize
           /\ \A i \in DOMAIN driver.results :
                 /\ driver.results[i].task.account_id = input[first + i][1]
                 /\ driver.results[i].task.token_id = input[first + i][2]
           /\ Len(driver.pipe) = Len(present)
           /\ \A k \in DOMAIN present :
                 /\ driver.pipe[k].op = "HSETNX"
                 /\ driver.pipe[k].key = << "b", present[k].task.token_id >>
                 /\ driver.pipe[k].args =
                      << present[k].task.account_id, to_string(Unwrap(present[k].result)) >>

C17_AbsenceNoError ==
    /\ []C17_Pipeline
    /\ [][ (prog = "balances_backfill" /\ driver.pc = "commit"
              /\ driver.done = Len(driver.pipe) /\ driver'.pc # "commit"
              /\ main'.pc # "start") =>
             /\ driver'.pc = "recv"
             /\ acked' = Append(acked, Unwrap(driver.msg)) ]_vars

\* The first batch had no result at all: it was committed without a write.
\* The driver now commits the second batch, whose first result is absent.
C17_Witness ==
    /\ prog = "balances_backfill"
    /\ Len(acked) = 1
    /\ store.hashes = {}
    /\ driver.pc = "commit"
    /\ driver.results[1].result = None
    /\ driver.results[2].result # None
    /\ Len(driver.pipe) = 1

(***************************************************************************)
(* C18.  Set-if-absent is first-writer-wins.  A balance field (key         *)
(* b:<token>, field <account>) holds one value, and once it is in the      *)
(* store no step changes or removes it: no later commit, no retry, no      *)
(* duplicate pair carrying another balance, no new start of the program.   *)
(***************************************************************************)
BalanceFields(st) == { t \in st.hashes : t[1][1] = "b" }

C18_OneValue ==
    \A t, u \in BalanceFields(store) : (t[1] = u[1] /\ t[2] = u[2]) => t = u

C18_FirstWriterWins ==
    /\ []C18_OneValue
    /\ [][ prog = "balances_backfill" =>
             BalanceFields(store) \subseteq BalanceFields(store') ]_vars

\* alice's field holds 7; the server has executed a pipeline with a HSETNX
\* of 12 for the same field.
C18_Witness ==
    /\ prog = "balances_backfill"
    /\ << << "b", usdc >>, alice, to_string(7) >> \in store.hashes
    /\ driver.pc = "commit"
    /\ driver.done = Len(driver.pipe)
    /\ \E k \in DOMAIN driver.pipe :
          /\ driver.pipe[k].key = << "b", usdc >>
          /\ driver.pipe[k].args = << alice, to_string(12) >>

(***************************************************************************)
(* C19.  With no meta:latest_block in the store ft_red does not refuse to  *)
(* start: with first the height of the entry read at cursor "0", it takes  *)
(* first + SAFE_OFFSET as the resume height and the reader starts from the *)
(* cursor "<first + SAFE_OFFSET>-0".  No entry of height at most           *)
(* first + SAFE_OFFSET is then read, handed to the driver or committed,    *)
(* in this run or after a new start.                                       *)
(***************************************************************************)
C19_NoCheckpointStart ==
    (prog = "ft_red" /\ main.pc # "start") =>
       LET first == log[1].block.height
           floor == first + SAFE_OFFSET
       IN  /\ main.first_block_height = Some(first)
           /\ store.marker = None =>
                /\ main.pc = "listening"
                /\ main.last_block_height = Some(floor)
                /\ checkpointed = {}
                /\ enq = << >> => reader.last_id = Some(<< floor, 0 >>)
           /\ main.pc = "listening" =>
                /\ \A i \in DOMAIN enq : enq[i] > floor
                /\ IsSome(reader.msg) => Unwrap(reader.msg).block.height > floor
                /\ IsSome(driver.msg) => Unwrap(driver.msg).height > floor
                /\ \A h \in checkpointed : h > floor

\* Started without a checkpoint, with an entry at first + SAFE_OFFSET in the
\* stream: the first block the driver commits is the one after it.
C19_Witness ==
    /\ prog = "ft_red"
    /\ crashes = 0
    /\ store.marker = None
    /\ \E i \in DOMAIN log : log[i].block.height = log[1].block.height + SAFE_OFFSET
    /\ driver.pc = "commit"
    /\ deq = << log[1].block.height + SAFE_OFFSET + 1 >>

(***************************************************************************)
(* balances_backfill without failure: no connection error, no RPC error,   *)
(* no stop.  Every task that can take a step eventually takes it.          *)
(***************************************************************************)
InitBfNoFailure ==
    /\ prog = "balances_backfill"
    /\ log = << >>
    /\ input \in ShortInputs
    /\ store = EmptyStore
    /\ main = MainStart
    /\ reader = ReaderIdle
    /\ producer = ProducerIdle
    /\ queue = << >>
    /\ driver = DriverIdle
    /\ faults = MaxFaults
    /\ crashes = MaxCrashes
    /\ enq = << >>
    /\ deq = << >>
    /\ acked = << >>
    /\ checkpointed = {}

NextBfNoFailure ==
    \/ BfMain
    \/ ProducerRead
    \/ ProducerSend
    \/ ProducerEnd
    \/ ConsumerRecv
    \/ ConsumerFetch
    \/ ConsumerEnd
    \/ ServerExec
    \/ CommitOk

FairBf ==
    /\ WF_vars(BfMain)
    /\ WF_vars(ProducerRead)
    /\ WF_vars(ProducerSend)
    /\ WF_vars(ProducerEnd)
    /\ WF_vars(ConsumerRecv)
    /\ WF_vars(ConsumerFetch)
    /\ WF_vars(ConsumerEnd)
    /\ WF_vars(ServerExec)
    /\ WF_vars(CommitOk)

LiveBf == InitBfNoFailure /\ [][NextBfNoFailure]_vars /\ FairBf

(***************************************************************************)
(* C20.  For a finite input and no failure balances_backfill terminates:   *)
(* process_balances eventually ends, and when it has ended the producer    *)
(* has ended, the channel is empty, and every batch that was sent has been *)
(* received and committed, in order.                                       *)
(***************************************************************************)
C20_Ended ==
    (prog = "balances_backfill" /\ driver.pc = "done") =>
       /\ producer.pc = "done"
       /\ producer.i = Len(input)
       /\ main.pc = "exited"
       /\ queue = << >>
       /\ deq = enq
       /\ acked = enq
       /\ Len(enq) = Len(input) \div BatchSize

C20_Terminates ==
    /\ []C20_Ended
    /\ <>(driver.pc = "done")
    /\ [](driver.pc = "done" => [](driver.pc = "done"))

\* process_balances has ended after committing two batches.
C20_Witness ==
    /\ prog = "balances_backfill"
    /\ driver.pc = "done"
    /\ Len(acked) = 2
    /\ store.hashes # {}

=============================================================================
